---------------------------- MODULE Spec2Model ----------------------------
(***************************************************************************)
(* Benchmark-log tooling of jvector: the log parser parse_file             *)
(* (parse-haystack.py), the metric extractor parse_data and the Pareto     *)
(* filter filter_pareto_optimal (plot_output.py), the sample selection of  *)
(* the curve fits (fitK.py, fitNK.py) and combine_json_files (combine.py). *)
(*                                                                         *)
(* Python values are modelled as follows.  None / a value is the empty /   *)
(* the one-element sequence.  A dict is a function on its key set.  A      *)
(* mutable object that several names can refer to (the run dict that       *)
(* parse_file keeps both in current_run and inside parsed_data) lives in a *)
(* heap and is referred to by its identity.  A text line is the record of  *)
(* what the regular expressions and substring tests of the code find in it.*)
(***************************************************************************)
EXTENDS Integers, Sequences, FiniteSets, TLC

VARIABLES
    \* parse-haystack.py
    file_lines,       \* the lines the for loop of parse_file has consumed so far
    parsed_data,      \* dict: dataset name -> list of run identities
    runs,             \* heap: run identity -> the dict {'N': .., 'data': [..]}
    current_dataset,  \* None or the current dataset name
    current_run,      \* None or the identity of the current run dict
    json_data,        \* None or the value parse_file returned
    pc,               \* "loop" | "returned"
    call_no,          \* how many calls of parse_file have been entered
    \* plot_output.py, filter_pareto_optimal
    data,             \* the argument of filter_pareto_optimal
    fidx,             \* position of the list comprehension in data
    kept,             \* the list built so far
    fpc,              \* "idle" | "filter" | "done"
    \* plot_output.py, parse_data
    description,      \* the description argument
    block_lines,      \* the lines of the data argument consumed so far
    query_vector_count, \* None or the count read off the description
    point_list,       \* the local list parsed_data of parse_data
    current_pq,       \* None or the quantization tag
    M,                \* None or the graph degree
    ef,               \* unbound (<<>>) or the search width
    summary,          \* None or the dict parse_data returned
    error,            \* None or the exception that ended parse_data
    xpc,              \* "idle" | "start" | "loop" | "returned" | "failed"
    block_no,         \* how many calls of parse_data have been entered
    \* combine.py
    file_system,      \* path -> what reading and parsing that file gives
    filenames,        \* the elements of filenames the for loop has consumed
    combined_data,    \* dict: key -> parsed JSON
    printed,          \* what print has written, in order
    results_json,     \* None or the object written to results.json
    cpc,              \* "idle" | "loop" | "written"
    \* fitK.py, fitNK.py
    script,           \* "fitK" | "fitNK"
    dataset,          \* the list of graphs read from stdin
    graph_i,          \* position of the outer for loop
    run_i,            \* position of the inner for loop
    filtered_data,    \* the list of selected samples
    solver_called,    \* whether curve_fit has been called
    fit_error,        \* None or the exception that ended the script
    fit_pc            \* "idle" | "select" | "unpack" | "fit" | "done" | "failed"

parseVars == <<file_lines, parsed_data, runs, current_dataset, current_run,
               json_data, pc, call_no>>
paretoVars == <<data, fidx, kept, fpc>>
extractVars == <<description, block_lines, query_vector_count, point_list,
                 current_pq, M, ef, summary, error, xpc, block_no>>
combineVars == <<file_system, filenames, combined_data, printed, results_json,
                 cpc>>
fitVars == <<script, dataset, graph_i, run_i, filtered_data, solver_called,
             fit_error, fit_pc>>

vars == <<parseVars, paretoVars, extractVars, combineVars, fitVars>>

None == <<>>
Some(x) == <<x>>

\* The empty dict, and d[k] = v on a dict.
EmptyDict == [k \in {} |-> <<>>]
DictSet(d, k, v) == [x \in (DOMAIN d) \cup {k} |-> IF x = k THEN v ELSE d[x]]

RECURSIVE SortedSeq(_)
\* The elements of a finite set of integers in increasing order.
SortedSeq(S) ==
    IF S = {} THEN <<>>
    ELSE LET m == CHOOSE x \in S : \A y \in S : x <= y
         IN <<m>> \o SortedSeq(S \ {m})

-----------------------------------------------------------------------------
(***************************************************************************)
(* parse-haystack.py: parse_file                                           *)
(***************************************************************************)

\* Longest log the model reads.
MaxLines == 4

\* A log line, as the three re.match calls of parse_file see it: whether each
\* pattern matches at the start of the line, and the groups it captures.
\* dataset_regex captures everything before the first ':' that is followed by
\* the counts; run_regex captures N; data_line_regex captures K, B, F.
Line(dm, name, rm, n, tm, k, b, f) ==
    [dataset_match |-> dm, name |-> name, run_match |-> rm, N |-> n,
     data_line_match |-> tm, K |-> k, B |-> b, F |-> f]

DatasetLine(name) == Line(TRUE, name, FALSE, 0, FALSE, 0, 0, 0)
BuildLine(n) == Line(FALSE, "", TRUE, n, FALSE, 0, 0, 0)
TrialLine(k, b, f) == Line(FALSE, "", FALSE, 0, TRUE, k, b, f)
OtherLine == Line(FALSE, "", FALSE, 0, FALSE, 0, 0, 0)
\* "Build N=1 M=1 ef=1 in 1s with 1 short edges: 1 base and 1 query vectors
\* loaded, dimensions 1" matches dataset_regex and run_regex at once.
BuildPrefix == "Build N=1 M=1 ef=1 in 1s with 1 short edges"
DatasetAndBuildLine == Line(TRUE, BuildPrefix, TRUE, 1, FALSE, 0, 0, 0)

Lines ==
    {DatasetLine("a"), DatasetLine("b"), BuildLine(1), BuildLine(2),
     TrialLine(1, 1, 3), TrialLine(2, 2, 5), OtherLine, DatasetAndBuildLine}

\* The local variables of parse_file, as one value.
ParserState(pd, rs, cd, cr) ==
    [parsed_data |-> pd, runs |-> rs, current_dataset |-> cd, current_run |-> cr]

\* Lines 14-16.
InitialParserState == ParserState(EmptyDict, EmptyDict, None, None)

\* Lines 20-24: the dataset introduction. current_run is left as it is.
on_dataset(st, line) ==
    [st EXCEPT !.current_dataset = Some(line.name),
               !.parsed_data = DictSet(st.parsed_data, line.name, <<>>)]

\* Lines 29-30: a new run dict, appended to the current dataset's list. The
\* new dict's identity is the number of the line that creates it.
on_run(st, line, id) ==
    [st EXCEPT !.current_run = Some(id),
               !.runs = DictSet(st.runs, id, [N |-> line.N, data |-> <<>>]),
               !.parsed_data[st.current_dataset[1]] = Append(@, id)]

\* Lines 36-37: a trial appended to the run dict current_run refers to,
\* wherever else that dict is referred to.
on_data(st, line) ==
    [st EXCEPT !.runs[st.current_run[1]].data =
                   Append(@, [K |-> line.K, B |-> line.B, F |-> line.F])]

\* Which branch of the loop body (lines 20-37) a line takes.
Branch(st, line) ==
    IF line.dataset_match THEN "dataset"
    ELSE IF line.run_match /\ st.current_dataset # None THEN "run"
    ELSE IF line.data_line_match /\ st.current_run # None THEN "data"
    ELSE "ignored"

\* A build line without a current dataset still creates a run and makes it
\* current; only the append is guarded.
parse_step_orphan_run(st, line, id) ==
    IF line.dataset_match THEN on_dataset(st, line)
    ELSE IF line.run_match THEN
        IF st.current_dataset # None THEN on_run(st, line, id)
        ELSE [st EXCEPT !.current_run = Some(id),
                        !.runs = DictSet(st.runs, id, [N |-> line.N, data |-> <<>>])]
    ELSE IF line.data_line_match /\ st.current_run # None THEN on_data(st, line)
    ELSE st

\* A line that matches nothing ends the current run.
parse_step_reset_on_other(st, line, id) ==
    IF Branch(st, line) = "dataset" THEN on_dataset(st, line)
    ELSE IF Branch(st, line) = "run" THEN on_run(st, line, id)
    ELSE IF Branch(st, line) = "data" THEN on_data(st, line)
    ELSE IF ~line.run_match /\ ~line.data_line_match
         THEN [st EXCEPT !.current_run = None]
    ELSE st

\* A build line without a current dataset opens a dataset named "unknown"
\* and is recorded under it.
parse_step_default_dataset(st, line, id) ==
    IF Branch(st, line) = "dataset" THEN on_dataset(st, line)
    ELSE IF Branch(st, line) = "run" THEN on_run(st, line, id)
    ELSE IF line.run_match
         THEN on_run(on_dataset(st, [line EXCEPT !.name = "unknown"]), line, id)
    ELSE IF Branch(st, line) = "data" THEN on_data(st, line)
    ELSE st

\* A trial line also stores its B as the N of the current run.
parse_step_trial_sets_N(st, line, id) ==
    IF Branch(st, line) = "dataset" THEN on_dataset(st, line)
    ELSE IF Branch(st, line) = "run" THEN on_run(st, line, id)
    ELSE IF Branch(st, line) = "data"
         THEN [on_data(st, line) EXCEPT !.runs[st.current_run[1]].N = line.B]
    ELSE st

\* One iteration of the for loop (lines 18-37) on line number id.
parse_step(st, line, id) ==
    IF Branch(st, line) = "dataset" THEN on_dataset(st, line)
    ELSE IF Branch(st, line) = "run" THEN on_run(st, line, id)
    ELSE IF Branch(st, line) = "data" THEN on_data(st, line)
    ELSE st

RECURSIVE parse_from(_, _, _)
\* The for loop from line number i on.
parse_from(st, ls, i) ==
    IF i > Len(ls) THEN st ELSE parse_from(parse_step(st, ls[i], i), ls, i + 1)

\* What parse_file returns (line 39), as json.dumps writes it (line 44): the
\* run identities replaced by the dicts they refer to.
Records(st) ==
    [d \in DOMAIN st.parsed_data |->
        [i \in 1..Len(st.parsed_data[d]) |-> st.runs[st.parsed_data[d][i]]]]

\* parse_file as a function of its argument (lines 8-39).
parse_file(ls) == Records(parse_from(InitialParserState, ls, 1))

Locals == ParserState(parsed_data, runs, current_dataset, current_run)

ParseIdle ==
    /\ file_lines = <<>>
    /\ parsed_data = EmptyDict
    /\ runs = EmptyDict
    /\ current_dataset = None
    /\ current_run = None
    /\ json_data = None
    /\ pc = "idle"
    /\ call_no = 0

ParetoIdle ==
    /\ data = <<>>
    /\ fidx = 0
    /\ kept = <<>>
    /\ fpc = "idle"

ExtractIdle ==
    /\ description = <<>>
    /\ block_lines = <<>>
    /\ query_vector_count = <<>>
    /\ point_list = <<>>
    /\ current_pq = <<>>
    /\ M = <<>>
    /\ ef = <<>>
    /\ summary = <<>>
    /\ error = <<>>
    /\ xpc = "idle"
    /\ block_no = 0

CombineIdle ==
    /\ file_system = <<>>
    /\ filenames = <<>>
    /\ combined_data = <<>>
    /\ printed = <<>>
    /\ results_json = <<>>
    /\ cpc = "idle"

FitIdle ==
    /\ script = "none"
    /\ dataset = <<>>
    /\ graph_i = 0
    /\ run_i = 0
    /\ filtered_data = <<>>
    /\ solver_called = FALSE
    /\ fit_error = <<>>
    /\ fit_pc = "idle"

\* Lines 14-16, before the first line is read.
Init ==
    /\ file_lines = <<>>
    /\ parsed_data = InitialParserState.parsed_data
    /\ runs = InitialParserState.runs
    /\ current_dataset = InitialParserState.current_dataset
    /\ current_run = InitialParserState.current_run
    /\ json_data = None
    /\ pc = "loop"
    /\ call_no = 1
    /\ ParetoIdle
    /\ ExtractIdle
    /\ CombineIdle
    /\ FitIdle

\* The loop body on the next line of the input.
Consume(line) ==
    /\ pc = "loop"
    /\ Len(file_lines) < MaxLines
    /\ file_lines' = Append(file_lines, line)
    /\ LET st == parse_step(Locals, line, Len(file_lines) + 1)
       IN /\ parsed_data' = st.parsed_data
          /\ runs' = st.runs
          /\ current_dataset' = st.current_dataset
          /\ current_run' = st.current_run
    /\ UNCHANGED <<json_data, pc, call_no>>
    /\ UNCHANGED <<paretoVars, extractVars, combineVars, fitVars>>

DatasetIntroduction ==
    \E line \in Lines : Branch(Locals, line) = "dataset" /\ Consume(line)

RunStart ==
    \E line \in Lines : Branch(Locals, line) = "run" /\ Consume(line)

DataLine ==
    \E line \in Lines : Branch(Locals, line) = "data" /\ Consume(line)

IgnoredLine ==
    \E line \in Lines : Branch(Locals, line) = "ignored" /\ Consume(line)

\* The input is exhausted: line 39, and the assignment of line 43.
Return ==
    /\ pc = "loop"
    /\ json_data' = Some(Records(Locals))
    /\ pc' = "returned"
    /\ UNCHANGED <<file_lines, parsed_data, runs, current_dataset, current_run,
                   call_no>>
    /\ UNCHANGED <<paretoVars, extractVars, combineVars, fitVars>>

Next ==
    \/ DatasetIntroduction
    \/ RunStart
    \/ DataLine
    \/ IgnoredLine
    \/ Return

Spec == Init /\ [][Next]_vars

\* Most calls of parse_file in one run of the repeated-call specification.
MaxCalls == 3

\* The locals outlive the call, as module-level variables would.
enter_parse_file_keeps_locals(left) == left

\* Lines 14-16: what a call of parse_file binds its locals to, whatever an
\* earlier call left behind.
enter_parse_file(left) == InitialParserState

\* Line 8: parse_file is called again, after an earlier call has returned.
CallAgain ==
    /\ pc = "returned"
    /\ call_no < MaxCalls
    /\ LET st == enter_parse_file(Locals)
       IN /\ parsed_data' = st.parsed_data
          /\ runs' = st.runs
          /\ current_dataset' = st.current_dataset
          /\ current_run' = st.current_run
    /\ file_lines' = <<>>
    /\ json_data' = None
    /\ pc' = "loop"
    /\ call_no' = call_no + 1
    /\ UNCHANGED <<paretoVars, extractVars, combineVars, fitVars>>

NextCalls ==
    \/ Next
    \/ CallAgain

\* parse_file called several times in a row, on any logs.
SpecCalls == Init /\ [][NextCalls]_vars

-----------------------------------------------------------------------------
(***************************************************************************)
(* Properties of parse_file.  The log is read off file_lines; the words    *)
(* "dataset header", "build header" and "trial line" mean a line of that   *)
(* form (the dataset pattern is tried first, as in the code).              *)
(***************************************************************************)

IsDatasetHeader(l) == l.dataset_match
IsBuildHeader(l) == ~l.dataset_match /\ l.run_match
IsTrialLine(l) == ~l.dataset_match /\ ~l.run_match /\ l.data_line_match
IsNonMatching(l) == ~l.dataset_match /\ ~l.run_match /\ ~l.data_line_match

SetMax(S) == IF S = {} THEN 0 ELSE CHOOSE x \in S : \A y \in S : y <= x
SetMin(S, dflt) == IF S = {} THEN dflt ELSE CHOOSE x \in S : \A y \in S : x <= y

DatasetIdx(ls) == {i \in 1..Len(ls) : IsDatasetHeader(ls[i])}
\* Build headers read while a dataset is current.
BuildIdx(ls) ==
    {i \in 1..Len(ls) : IsBuildHeader(ls[i]) /\ \E j \in DatasetIdx(ls) : j < i}
TrialIdx(ls) == {i \in 1..Len(ls) : IsTrialLine(ls[i])}

\* The dataset that is current when line i is read: the one the last dataset
\* header before i announced.
DatasetAt(ls, i) ==
    LET j == SetMax({h \in DatasetIdx(ls) : h < i})
    IN IF j = 0 THEN None ELSE Some(ls[j].name)

\* The build that is current when line i is read, when a dataset header
\* resets the current build: the last header before i, if it is a build header.
BuildAt(ls, i) ==
    LET h == SetMax({j \in DatasetIdx(ls) \cup BuildIdx(ls) : j < i})
    IN IF h \in BuildIdx(ls) THEN Some(h) ELSE None

TrialsOf(ls, b) ==
    LET ts == SortedSeq({j \in TrialIdx(ls) : BuildAt(ls, j) = Some(b)})
    IN [m \in 1..Len(ts) |-> [K |-> ls[ts[m]].K, B |-> ls[ts[m]].B, F |-> ls[ts[m]].F]]

BuildsOf(ls, d) ==
    LET bs == SortedSeq({i \in BuildIdx(ls) : DatasetAt(ls, i) = Some(d)})
    IN [k \in 1..Len(bs) |-> [N |-> ls[bs[k]].N, data |-> TrialsOf(ls, bs[k])]]

\* The records the log describes: every announced name, with one Build per
\* build header read while that dataset was current and one Trial per trial
\* line read while that build was current.
LogRecords(ls) == [d \in {ls[i].name : i \in DatasetIdx(ls)} |-> BuildsOf(ls, d)]

\* The sub-log of the lines whose numbers are in S.
SubLog(ls, S) ==
    LET idx == SortedSeq(S) IN [k \in 1..Len(idx) |-> ls[idx[k]]]

\* The dict current_run refers to, if any.
CurrentRunValue(st) ==
    IF st.current_run = None THEN None ELSE Some(st.runs[st.current_run[1]])

\* The parser is where it would be had it read only the log ls.
SameParseAs(ls) ==
    LET st == parse_from(InitialParserState, ls, 1)
    IN /\ Records(Locals) = Records(st)
       /\ current_dataset = st.current_dataset
       /\ CurrentRunValue(Locals) = CurrentRunValue(st)
       /\ Cardinality(DOMAIN runs) = Cardinality(DOMAIN st.runs)
       /\ pc \in {"loop", "returned"}
       /\ pc = "returned" => json_data = Some(parse_file(ls))

\* The line the step just taken has read.
LastLine(ls) == ls[Len(ls)]

\* C1: what parse_file returns is exactly the records the log describes:
\* the announced names as keys, per dataset one Build per build header read
\* while it was current, per Build one Trial per trial line read while it was
\* current, in log order, also when a name is announced more than once.
C1_ResultIsLogRecords ==
    pc = "returned" => json_data = Some(LogRecords(file_lines))

\* C2: a dataset header resets the current build to none, and a trial line
\* read after a dataset header and before the next build header is appended
\* to no build.
C2_DatasetHeaderResetsBuild ==
    [][file_lines' # file_lines =>
          /\ IsDatasetHeader(LastLine(file_lines')) => current_run' = None
          /\ (/\ IsTrialLine(LastLine(file_lines'))
              /\ BuildAt(file_lines', Len(file_lines')) = None)
             => runs' = runs]_vars

\* C8: a build header read before any dataset header is discarded: the
\* parser state, the result and the handling of the following lines are
\* those of the log without such lines, and no error is raised.
OrphanBuildIdx(ls) ==
    {i \in 1..Len(ls) : IsBuildHeader(ls[i]) /\ DatasetAt(ls, i) = None}

C8_OrphanBuildDiscarded ==
    SameParseAs(SubLog(file_lines, (1..Len(file_lines)) \ OrphanBuildIdx(file_lines)))

\* C8 witness: a returned parse whose log starts with an orphan build header
\* and later fills a build of a dataset with a trial.
C8_Witness ==
    /\ pc = "returned"
    /\ OrphanBuildIdx(file_lines) # {}
    /\ \E d \in DOMAIN json_data[1] :
          \E i \in 1..Len(json_data[1][d]) : json_data[1][d][i].data # <<>>

\* C9: a record is never changed after it is closed: the trial list of a
\* build is fixed once a later build or dataset header has been read, and the
\* build list of a dataset other than the current one is fixed.
ClosedBuild(ls, b) ==
    \E j \in DatasetIdx(ls) \cup BuildIdx(ls) : j > b

C9_ClosedRecordsFrozen ==
    [][/\ \A b \in DOMAIN runs :
             ClosedBuild(file_lines, b) => runs'[b] = runs[b]
       /\ \A d \in DOMAIN parsed_data :
             current_dataset # Some(d) => parsed_data'[d] = parsed_data[d]]_vars

\* C10: a line that matches none of the three patterns is ignored: the
\* parser state and the result are those of the log with all such lines
\* removed, and no error is raised.
NonMatchingIdx(ls) == {i \in 1..Len(ls) : IsNonMatching(ls[i])}

C10_NonMatchingIgnored ==
    SameParseAs(SubLog(file_lines, (1..Len(file_lines)) \ NonMatchingIdx(file_lines)))

\* C10 witness: a returned parse in which a non-matching line stands between
\* a build header and a trial line that the build received.
C10_Witness ==
    /\ pc = "returned"
    /\ \E i \in NonMatchingIdx(file_lines) :
          /\ i > 1 /\ i < Len(file_lines)
          /\ IsBuildHeader(file_lines[i - 1])
          /\ IsTrialLine(file_lines[i + 1])
          /\ (i - 1) \in DOMAIN runs
          /\ runs[i - 1].data # <<>>

\* C11: parsing is deterministic and leaves no state behind: every call,
\* whatever calls came before it, starts with an empty mapping, no current
\* dataset and no current build, and its locals and its result are those the
\* lines of this call alone determine, so that two calls on the same lines
\* return the same records.
C11_CallsIndependent ==
    pc \in {"loop", "returned"} =>
        /\ file_lines = <<>> => Locals = InitialParserState
        /\ Locals = parse_from(InitialParserState, file_lines, 1)
        /\ pc = "returned" => json_data = Some(parse_file(file_lines))

\* C11 witness: a third call has returned a build with a trial.
C11_Witness ==
    /\ call_no = 3
    /\ pc = "returned"
    /\ \E d \in DOMAIN json_data[1] :
          \E i \in 1..Len(json_data[1][d]) : json_data[1][d][i].data # <<>>

\* C15: a log without a dataset header line, the empty log among them, gives
\* an empty mapping whatever build and trial lines it holds: no dataset and
\* no build becomes current, nothing is recorded, and no error is raised.
C15_NoDatasetHeaderEmptyMapping ==
    (pc \in {"loop", "returned"} /\ DatasetIdx(file_lines) = {}) =>
        /\ parsed_data = EmptyDict
        /\ current_dataset = None
        /\ current_run = None
        /\ pc = "returned" => json_data = Some(EmptyDict)

\* C15 witness: a returned parse of a log that holds a build header followed
\* by a trial line, and no dataset header.
C15_Witness ==
    /\ pc = "returned"
    /\ DatasetIdx(file_lines) = {}
    /\ \E i \in 1..(Len(file_lines) - 1) :
          IsBuildHeader(file_lines[i]) /\ IsTrialLine(file_lines[i + 1])
    /\ json_data = Some(EmptyDict)

\* C19: at every point of a pass, a current build implies a current dataset;
\* the current dataset's name is a key of the result mapping; once a dataset
\* header has been read the current dataset is never none again; and every
\* Build holds the N of the header that created it.
C19_ParserStateInvariant ==
    pc \in {"loop", "returned"} =>
        /\ current_run # None => current_dataset # None
        /\ current_dataset # None => current_dataset[1] \in DOMAIN parsed_data
        /\ DatasetIdx(file_lines) # {} => current_dataset # None
        /\ \A id \in DOMAIN runs : runs[id].N = file_lines[id].N

\* C19 witness: a build of one dataset was given a trial whose B differs from
\* the build's N, and a second dataset header was read afterwards.
C19_Witness ==
    /\ pc = "returned"
    /\ Len(file_lines) = 4
    /\ IsDatasetHeader(file_lines[1])
    /\ IsBuildHeader(file_lines[2])
    /\ IsTrialLine(file_lines[3])
    /\ IsDatasetHeader(file_lines[4])
    /\ file_lines[3].B # file_lines[2].N
    /\ current_dataset = Some(file_lines[4].name)
    /\ file_lines[4].name # file_lines[1].name
    /\ current_run = Some(2)
    /\ runs[2].data # <<>>

-----------------------------------------------------------------------------
(***************************************************************************)
(* plot_output.py: is_pareto_optimal, filter_pareto_optimal                *)
(***************************************************************************)

\* Longest list the filter is given.
MaxPoints == 3

\* The points the filter is tried on.  Only the order of recall and of
\* throughput enters the filter, so the floats are written as integers: recall
\* in hundredths (90 is 0.90), throughput as it is.  pq stands for the fields
\* the filter does not read.
Recalls == {90, 95}
Throughputs == {80, 90, 100}
Point(pq, recall, throughput) ==
    [pq |-> pq, recall |-> recall, throughput |-> throughput]
Points == {Point(q, r, t) : q \in {"UC", "BQ"}, r \in Recalls, t \in Throughputs}

PointLists == UNION {[1..n -> Points] : n \in 0..MaxPoints}

\* The throughput test also accepts an equal throughput.
is_pareto_optimal_ge_from(candidate, others, i) ==
    \A k \in i..Len(others) :
        /\ ~(others[k].recall >= candidate.recall
             /\ others[k].throughput >= candidate.throughput)
        /\ ~(others[k].recall > candidate.recall
             /\ others[k].throughput >= candidate.throughput)

\* The second test (line 90) is missing.
is_pareto_optimal_first_test_only_from(candidate, others, i) ==
    \A k \in i..Len(others) :
        ~(others[k].recall >= candidate.recall
          /\ others[k].throughput > candidate.throughput)

\* Only the points after the first are compared with the candidate.
is_pareto_optimal_skip_first_from(candidate, others, i) ==
    \A k \in (i + 1)..Len(others) :
        /\ ~(others[k].recall >= candidate.recall
             /\ others[k].throughput > candidate.throughput)
        /\ ~(others[k].recall > candidate.recall
             /\ others[k].throughput >= candidate.throughput)

\* A point that is better in either coordinate rejects the candidate.
is_pareto_optimal_either_from(candidate, others, i) ==
    \A k \in i..Len(others) :
        /\ ~(others[k].recall > candidate.recall)
        /\ ~(others[k].throughput > candidate.throughput)

RECURSIVE is_pareto_optimal_from(_, _, _)
\* The for loop of is_pareto_optimal (lines 86-92) from others[i] on.
is_pareto_optimal_from(candidate, others, i) ==
    IF i > Len(others) THEN TRUE
    ELSE IF /\ others[i].recall >= candidate.recall
            /\ others[i].throughput > candidate.throughput THEN FALSE
    ELSE IF /\ others[i].recall > candidate.recall
            /\ others[i].throughput >= candidate.throughput THEN FALSE
    ELSE is_pareto_optimal_from(candidate, others, i + 1)

\* Lines 84-92.
is_pareto_optimal(candidate, others) == is_pareto_optimal_from(candidate, others, 1)

\* A point whose recall and throughput are already in the output is left out.
filter_step_dedup(out, point, others) ==
    IF /\ is_pareto_optimal(point, others)
       /\ \A k \in 1..Len(out) :
             ~(out[k].recall = point.recall /\ out[k].throughput = point.throughput)
    THEN Append(out, point)
    ELSE out

\* Line 96: what one point of the comprehension does to the list being built.
filter_step(out, point, others) ==
    IF is_pareto_optimal(point, others) THEN Append(out, point) ELSE out

\* The call filter_pareto_optimal(data), before the comprehension starts.
InitPareto ==
    /\ data \in PointLists
    /\ fidx = 1
    /\ kept = <<>>
    /\ fpc = "filter"
    /\ ParseIdle
    /\ ExtractIdle
    /\ CombineIdle
    /\ FitIdle

\* Line 96, one point of the comprehension whose condition holds.
FilterKeep ==
    /\ fpc = "filter"
    /\ fidx <= Len(data)
    /\ is_pareto_optimal(data[fidx], data)
    /\ kept' = filter_step(kept, data[fidx], data)
    /\ fidx' = fidx + 1
    /\ UNCHANGED <<data, fpc>>
    /\ UNCHANGED <<parseVars, extractVars, combineVars, fitVars>>

\* Line 96, one point of the comprehension whose condition fails.
FilterDrop ==
    /\ fpc = "filter"
    /\ fidx <= Len(data)
    /\ ~is_pareto_optimal(data[fidx], data)
    /\ fidx' = fidx + 1
    /\ UNCHANGED <<data, kept, fpc>>
    /\ UNCHANGED <<parseVars, extractVars, combineVars, fitVars>>

\* Line 96, the comprehension is exhausted and the list is returned.
FilterReturn ==
    /\ fpc = "filter"
    /\ fidx > Len(data)
    /\ fpc' = "done"
    /\ UNCHANGED <<data, fidx, kept>>
    /\ UNCHANGED <<parseVars, extractVars, combineVars, fitVars>>

NextPareto ==
    \/ FilterKeep
    \/ FilterDrop
    \/ FilterReturn

SpecPareto == InitPareto /\ [][NextPareto]_vars

\* q dominates p.
Dominates(q, p) ==
    \/ q.recall >= p.recall /\ q.throughput > p.throughput
    \/ q.recall > p.recall /\ q.throughput >= p.throughput

Undominated(p) == \A k \in 1..Len(data) : ~Dominates(data[k], p)

PointsOf(list) == {list[k] : k \in 1..Len(list)}

\* 0.9/100, 0.95/90, 0.9/80.
ExampleList == <<Point("UC", 90, 100), Point("UC", 95, 90), Point("UC", 90, 80)>>

\* C3: the filter returns exactly the input points that no input point
\* dominates, in input order; of the example list, the first two.
C3_FilterIsUndominated ==
    fpc = "done" =>
        /\ kept = SelectSeq(data, Undominated)
        /\ data = ExampleList => kept = SubSeq(ExampleList, 1, 2)

\* C3 witness: the filter has returned on the example list.
C3_Witness ==
    /\ fpc = "done"
    /\ data = ExampleList
    /\ kept = <<Point("UC", 90, 100), Point("UC", 95, 90)>>

\* C4: every input point the filter leaves out is dominated by a point of
\* the filter's output.
C4_ParetoCompleteness ==
    fpc = "done" =>
        \A p \in PointsOf(data) \ PointsOf(kept) :
            \E q \in PointsOf(kept) : Dominates(q, p)

\* C4 witness: two points were left out, one of them dominated by the other.
C4_Witness ==
    /\ fpc = "done"
    /\ \E p, q \in PointsOf(data) \ PointsOf(kept) : Dominates(q, p)

\* C5: no point of the filter's output dominates another point of it.
C5_ParetoMinimality ==
    fpc = "done" =>
        \A p, q \in PointsOf(kept) : ~Dominates(q, p)

\* C5 witness: the output holds two points that differ in recall and in
\* throughput, and a point was left out.
C5_Witness ==
    /\ fpc = "done"
    /\ Len(kept) < Len(data)
    /\ \E p, q \in PointsOf(kept) :
          p.recall < q.recall /\ p.throughput > q.throughput

\* The dominance test of is_pareto_optimal: point makes the function return
\* False for candidate.
dominated_by(candidate, point) == ~is_pareto_optimal(candidate, <<point>>)

SameMeasure(p, q) == p.recall = q.recall /\ p.throughput = q.throughput

\* C14: no two points dominate each other under the test of
\* is_pareto_optimal; points of identical recall and throughput do not
\* dominate each other, and no point dominates itself.
C14_DominanceAntisymmetric ==
    \A i, j \in 1..Len(data) :
        /\ ~(dominated_by(data[i], data[j]) /\ dominated_by(data[j], data[i]))
        /\ SameMeasure(data[i], data[j]) => ~dominated_by(data[i], data[j])
        /\ ~dominated_by(data[i], data[i])

\* C14 witness: the filter has returned on a list with two distinct points of
\* identical recall and throughput, both kept, and a point one of them
\* dominates, which was dropped.
C14_Witness ==
    /\ fpc = "done"
    /\ \E i, j, k \in 1..Len(data) :
          /\ data[i] # data[j]
          /\ SameMeasure(data[i], data[j])
          /\ dominated_by(data[k], data[i])
          /\ ~dominated_by(data[i], data[k])
          /\ kept = <<data[i], data[j]>>

\* The points of data the comprehension has gone through.
Filtered == SubSeq(data, 1, fidx - 1)

InKept(p) == p \in PointsOf(kept)

\* C17: the output is a subsequence of the input: the surviving points in
\* input order, none created or altered; points of identical recall and
\* throughput are kept at every occurrence or dropped at every occurrence.
C17_OutputIsSubsequence ==
    fpc \in {"filter", "done"} =>
        /\ kept = SelectSeq(Filtered, InKept)
        /\ \A i, j \in 1..Len(Filtered) :
              SameMeasure(data[i], data[j]) => (InKept(data[i]) <=> InKept(data[j]))

\* C17 witness: a point occurs twice, with a dominated point between the
\* occurrences; the output is the first point twice.
C17_Witness ==
    /\ fpc = "done"
    /\ Len(data) = 3
    /\ data[1] = data[3]
    /\ data[2] # data[1]
    /\ kept = <<data[1], data[3]>>

-----------------------------------------------------------------------------
(***************************************************************************)
(* plot_output.py: parse_data                                              *)
(***************************************************************************)

\* Longest block of data lines the model reads.
MaxBlock == 4

\* The description line, as the four re.search calls of lines 43-46 see it:
\* what each finds, None where it finds nothing.
Description(base, query, dims, name) ==
    [base_vector_count |-> base, query_vector_count |-> query,
     dimensions |-> dims, dataset_name |-> name]

\* "sift: 100 base and 1000 query vectors loaded, dimensions 8", and the same
\* line without its query count.
Descriptions ==
    {Description(Some(100), Some(1000), Some(8), Some("sift")),
     Description(Some(100), None, Some(8), Some("sift"))}

\* A data line, as parse_data sees it: the substrings it contains and what
\* the re.search calls of its branch find (None: no match).  query_time is in
\* tenths of a second, recall in hundredths.
BlockLine(pq, size, bq, uc, build, m, e, query, memory, recall, time, over) ==
    [ProductQuantization |-> pq, pq_size |-> size,
     BinaryQuantization |-> bq, Uncompressed |-> uc,
     BuildM |-> build, M |-> m, ef |-> e,
     Query |-> query, memory |-> memory,
     recall |-> recall, query_time |-> time, overquery |-> over]

NoLine == BlockLine(FALSE, None, FALSE, FALSE, FALSE, None, None,
                    FALSE, FALSE, None, None, None)
PQLine(size) == [NoLine EXCEPT !.ProductQuantization = TRUE, !.pq_size = size]
BQLine == [NoLine EXCEPT !.BinaryQuantization = TRUE]
UCLine == [NoLine EXCEPT !.Uncompressed = TRUE]
BuildMLine(m, e) == [NoLine EXCEPT !.BuildM = TRUE, !.M = m, !.ef = e]
QueryLine(memory, recall, time, over) ==
    [NoLine EXCEPT !.Query = TRUE, !.memory = memory, !.recall = recall,
                   !.query_time = time, !.overquery = over]

BlockLines ==
    {PQLine(Some(16)),                       \* "ProductQuantization(16)"
     PQLine(None),                           \* "ProductQuantization" alone
     BQLine, UCLine,
     BuildMLine(Some(16), Some(64)),         \* "Build M=16 ef=64 ..."
     BuildMLine(Some(32), None),             \* "Build M=32" without ef=
     QueryLine(FALSE, Some(90), Some(20), Some(200)),
                              \* "  Query top 100/200 recall 0.90 in 2.0s"
     QueryLine(FALSE, Some(95), Some(0), Some(100)),   \* "... in 0.0s"
     QueryLine(FALSE, None, None, None),     \* "  Query " and nothing else
     QueryLine(TRUE, Some(95), Some(20), Some(100)),   \* "... (memory)"
     QueryLine(TRUE, None, None, None),      \* "  Query (memory)"
     [QueryLine(FALSE, Some(90), Some(20), Some(200)) EXCEPT !.Uncompressed = TRUE],
                              \* a query line that mentions "Uncompressed"
     NoLine}

\* The locals of the loop of parse_data, as one value.
ExtractState(pts, q, m, e, err) ==
    [point_list |-> pts, current_pq |-> q, M |-> m, ef |-> e, error |-> err]

\* The call is left with exception exc; the locals stay as they are.
Raise(st, exc) == [st EXCEPT !.error = Some(exc)]

\* Line 74: the dataclass instance (lines 23-30).
MeasurementPoint(pq, recall, throughput, m, e, overquery) ==
    [pq |-> pq, recall |-> recall, throughput |-> throughput, M |-> m,
     ef |-> e, overquery |-> overquery]

\* Line 70, with query_time in tenths of a second: count * 10 / (t / 10).
\* The times of BlockLines divide exactly.
Throughput(count, t) == (count * 100) \div t

\* Which branch of the if/elif chain (lines 52-61) a line takes.
BlockBranch(line) ==
    IF line.ProductQuantization THEN "pq"
    ELSE IF line.BinaryQuantization THEN "bq"
    ELSE IF line.Uncompressed THEN "uc"
    ELSE IF line.BuildM THEN "build"
    ELSE IF line.Query THEN "query"
    ELSE "none"

\* Lines 62-74 without the two assert statements (as under python -O): the
\* point is built whatever the context, with pq and M as they are (None or
\* the value); reading ef before it is bound raises.
on_query_no_assert(st, line, count) ==
    IF line.memory THEN st
    ELSE IF line.recall = None \/ line.query_time = None \/ line.overquery = None
         THEN Raise(st, "AttributeError")
    ELSE IF line.query_time[1] = 0 THEN Raise(st, "ZeroDivisionError")
    ELSE IF st.ef = None THEN Raise(st, "NameError")
    ELSE [st EXCEPT !.point_list =
              Append(@, MeasurementPoint(st.current_pq, line.recall[1],
                                         Throughput(count, line.query_time[1]),
                                         st.M, st.ef[1], line.overquery[1]))]

\* Lines 62-74 with the "(memory)" test after the point is built.
on_query_memory_tested_last(st, line, count) ==
    IF line.recall = None \/ line.query_time = None \/ line.overquery = None
         THEN Raise(st, "AttributeError")
    ELSE IF line.query_time[1] = 0 THEN Raise(st, "ZeroDivisionError")
    ELSE IF st.current_pq = None THEN Raise(st, "AssertionError")
    ELSE IF st.M = None THEN Raise(st, "AssertionError")
    ELSE IF line.memory THEN st
    ELSE [st EXCEPT !.point_list =
              Append(@, MeasurementPoint(st.current_pq[1], line.recall[1],
                                         Throughput(count, line.query_time[1]),
                                         st.M[1], st.ef[1], line.overquery[1]))]

\* Lines 62-74: the query branch.  The three searches and the division come
\* before the two assertions.
on_query(st, line, count) ==
    IF line.memory THEN st
    ELSE IF line.recall = None \/ line.query_time = None \/ line.overquery = None
         THEN Raise(st, "AttributeError")
    ELSE IF line.query_time[1] = 0 THEN Raise(st, "ZeroDivisionError")
    ELSE IF st.current_pq = None THEN Raise(st, "AssertionError")
    ELSE IF st.M = None THEN Raise(st, "AssertionError")
    ELSE [st EXCEPT !.point_list =
              Append(@, MeasurementPoint(st.current_pq[1], line.recall[1],
                                         Throughput(count, line.query_time[1]),
                                         st.M[1], st.ef[1], line.overquery[1]))]

\* A "Build M=" line also clears the quantization tag.
extract_step_build_resets_pq(st, line, count) ==
    IF BlockBranch(line) = "pq" THEN
        IF line.pq_size = None THEN Raise(st, "AttributeError")
        ELSE [st EXCEPT !.current_pq = Some(<<"PQ@", line.pq_size[1]>>)]
    ELSE IF BlockBranch(line) = "bq" THEN [st EXCEPT !.current_pq = Some(<<"BQ">>)]
    ELSE IF BlockBranch(line) = "uc" THEN [st EXCEPT !.current_pq = Some(<<"UC">>)]
    ELSE IF BlockBranch(line) = "build" THEN
        IF line.M = None THEN Raise(st, "AttributeError")
        ELSE IF line.ef = None THEN Raise([st EXCEPT !.M = line.M], "AttributeError")
        ELSE [st EXCEPT !.M = line.M, !.ef = line.ef, !.current_pq = None]
    ELSE IF BlockBranch(line) = "query" THEN on_query(st, line, count)
    ELSE st

\* Lines 52-74: one iteration of the loop.  The quantization tag 'PQ@' + size
\* is the pair <<"PQ@", size>>.
extract_step(st, line, count) ==
    IF BlockBranch(line) = "pq" THEN
        IF line.pq_size = None THEN Raise(st, "AttributeError")
        ELSE [st EXCEPT !.current_pq = Some(<<"PQ@", line.pq_size[1]>>)]
    ELSE IF BlockBranch(line) = "bq" THEN [st EXCEPT !.current_pq = Some(<<"BQ">>)]
    ELSE IF BlockBranch(line) = "uc" THEN [st EXCEPT !.current_pq = Some(<<"UC">>)]
    ELSE IF BlockBranch(line) = "build" THEN
        IF line.M = None THEN Raise(st, "AttributeError")
        ELSE IF line.ef = None THEN Raise([st EXCEPT !.M = line.M], "AttributeError")
        ELSE [st EXCEPT !.M = line.M, !.ef = line.ef]
    ELSE IF BlockBranch(line) = "query" THEN on_query(st, line, count)
    ELSE st

RECURSIVE extract_from(_, _, _, _)
\* The loop of lines 51-74 from data[i] on; it ends at the first exception.
extract_from(st, ls, i, count) ==
    IF i > Len(ls) \/ st.error # None THEN st
    ELSE extract_from(extract_step(st, ls[i], count), ls, i + 1, count)

\* Lines 48-50; ef is not bound yet.
InitialExtractState == ExtractState(<<>>, None, None, None, None)

BlockLocals == ExtractState(point_list, current_pq, M, ef, error)

\* The call parse_data(description, data), before its first statement.
InitExtract ==
    /\ description \in Descriptions
    /\ block_lines = <<>>
    /\ query_vector_count = None
    /\ point_list = <<>>
    /\ current_pq = None
    /\ M = None
    /\ ef = None
    /\ summary = None
    /\ error = None
    /\ xpc = "start"
    /\ block_no = 1
    /\ ParseIdle
    /\ ParetoIdle
    /\ CombineIdle
    /\ FitIdle

\* Lines 43-50: the four searches all find their group.
ReadDescription ==
    /\ xpc = "start"
    /\ \A f \in DOMAIN description : description[f] # None
    /\ query_vector_count' = description.query_vector_count
    /\ point_list' = InitialExtractState.point_list
    /\ current_pq' = InitialExtractState.current_pq
    /\ M' = InitialExtractState.M
    /\ ef' = InitialExtractState.ef
    /\ xpc' = "loop"
    /\ UNCHANGED <<description, block_lines, summary, error>>
    /\ UNCHANGED <<block_no, parseVars, paretoVars, combineVars, fitVars>>

\* Lines 43-46: a search finds nothing and .group(1) raises.
BadDescription ==
    /\ xpc = "start"
    /\ \E f \in DOMAIN description : description[f] = None
    /\ error' = Some("AttributeError")
    /\ xpc' = "failed"
    /\ UNCHANGED <<description, block_lines, query_vector_count, point_list,
                   current_pq, M, ef, summary>>
    /\ UNCHANGED <<block_no, parseVars, paretoVars, combineVars, fitVars>>

\* The loop body on the next line of data.
ConsumeBlockLine(line) ==
    /\ xpc = "loop"
    /\ Len(block_lines) < MaxBlock
    /\ block_lines' = Append(block_lines, line)
    /\ LET st == extract_step(BlockLocals, line, query_vector_count[1])
       IN /\ point_list' = st.point_list
          /\ current_pq' = st.current_pq
          /\ M' = st.M
          /\ ef' = st.ef
          /\ error' = st.error
          /\ xpc' = IF st.error = None THEN "loop" ELSE "failed"
    /\ UNCHANGED <<description, query_vector_count, summary>>
    /\ UNCHANGED <<block_no, parseVars, paretoVars, combineVars, fitVars>>

QuantizationLine ==
    \E line \in BlockLines :
        BlockBranch(line) \in {"pq", "bq", "uc"} /\ ConsumeBlockLine(line)

BuildMEfLine ==
    \E line \in BlockLines : BlockBranch(line) = "build" /\ ConsumeBlockLine(line)

QueryResultLine ==
    \E line \in BlockLines : BlockBranch(line) = "query" /\ ConsumeBlockLine(line)

UnrelatedLine ==
    \E line \in BlockLines : BlockBranch(line) = "none" /\ ConsumeBlockLine(line)

\* Lines 76-81: data is exhausted and the summary is returned.
ReturnSummary ==
    /\ xpc = "loop"
    /\ summary' = Some([name |-> description.dataset_name[1],
                        base_vector_count |-> description.base_vector_count[1],
                        dimensions |-> description.dimensions[1],
                        data |-> point_list])
    /\ xpc' = "returned"
    /\ UNCHANGED <<description, block_lines, query_vector_count, point_list,
                   current_pq, M, ef, error>>
    /\ UNCHANGED <<block_no, parseVars, paretoVars, combineVars, fitVars>>

NextExtract ==
    \/ ReadDescription
    \/ BadDescription
    \/ QuantizationLine
    \/ BuildMEfLine
    \/ QueryResultLine
    \/ UnrelatedLine
    \/ ReturnSummary

SpecExtract == InitExtract /\ [][NextExtract]_vars

\* A query-result line: one that reaches the query branch.
IsQueryLine(l) == BlockBranch(l) = "query"
IsMemoryQueryLine(l) == IsQueryLine(l) /\ l.memory
IsNonMemoryQueryLine(l) == IsQueryLine(l) /\ ~l.memory

MemoryQueryIdx(ls) == {i \in 1..Len(ls) : IsMemoryQueryLine(ls[i])}
NonMemoryQueryIdx(ls) == {i \in 1..Len(ls) : IsNonMemoryQueryLine(ls[i])}

\* A quantization line, an M/ef line, stands before line i.
QuantizationSetBefore(ls, i) ==
    \E j \in 1..(i - 1) : BlockBranch(ls[j]) \in {"pq", "bq", "uc"}
MEfSetBefore(ls, i) ==
    \E j \in 1..(i - 1) : BlockBranch(ls[j]) = "build"

MaxBlocks == 2

\* The locals of the call before stay bound in the next call.
enter_parse_data_keeps_frame(left) == left

\* A call of parse_data starts with a frame of its own: none of its locals
\* is bound, whatever the call before left.
enter_parse_data(left) == InitialExtractState

\* Line 136: the comprehension calls parse_data on the next block, after the
\* call before has returned.
NextBlockCall ==
    /\ xpc = "returned"
    /\ block_no < MaxBlocks
    /\ block_no' = block_no + 1
    /\ description' \in Descriptions
    /\ block_lines' = <<>>
    /\ query_vector_count' = None
    /\ LET st == enter_parse_data(BlockLocals)
       IN /\ point_list' = st.point_list
          /\ current_pq' = st.current_pq
          /\ M' = st.M
          /\ ef' = st.ef
          /\ error' = st.error
    /\ summary' = None
    /\ xpc' = "start"
    /\ UNCHANGED <<parseVars, paretoVars, combineVars, fitVars>>

NextBlocks ==
    \/ NextExtract
    \/ NextBlockCall

SpecBlocks == InitExtract /\ [][NextBlocks]_vars

IsQuantizationLine(l) == BlockBranch(l) \in {"pq", "bq", "uc"}
IsMEfLine(l) == BlockBranch(l) = "build"

\* The tag a quantization line names.
TagOf(l) ==
    IF l.ProductQuantization THEN <<"PQ@", l.pq_size[1]>>
    ELSE IF l.BinaryQuantization THEN <<"BQ">>
    ELSE <<"UC">>

\* The context in force after the first n lines of ls: what the last
\* quantization line and the last M/ef line among them set, None where there
\* is no such line.
ActiveTag(ls, n) ==
    LET S == {j \in 1..n : IsQuantizationLine(ls[j])}
    IN  IF S = {} THEN None ELSE Some(TagOf(ls[SetMax(S)]))
ActiveM(ls, n) ==
    LET S == {j \in 1..n : IsMEfLine(ls[j])}
    IN  IF S = {} THEN None ELSE ls[SetMax(S)].M
ActiveEf(ls, n) ==
    LET S == {j \in 1..n : IsMEfLine(ls[j])}
    IN  IF S = {} THEN None ELSE ls[SetMax(S)].ef

\* C16: every emitted point carries the quantization tag, M and ef set by the
\* most recent quantization line and M/ef line before its query line; a
\* quantization line leaves M/ef alone and an M/ef line leaves the tag alone;
\* the context of a call is that of its own block, never that of a block
\* parsed before.
C16_PointsCarryActiveContext ==
    /\ xpc \in {"loop", "returned"} =>
          /\ current_pq = ActiveTag(block_lines, Len(block_lines))
          /\ M = ActiveM(block_lines, Len(block_lines))
          /\ ef = ActiveEf(block_lines, Len(block_lines))
    /\ xpc \in {"loop", "returned", "failed"} =>
          LET qs == SortedSeq(NonMemoryQueryIdx(block_lines))
          IN  \A k \in 1..Len(point_list) :
                  /\ k <= Len(qs)
                  /\ Some(point_list[k].pq) = ActiveTag(block_lines, qs[k] - 1)
                  /\ Some(point_list[k].M) = ActiveM(block_lines, qs[k] - 1)
                  /\ Some(point_list[k].ef) = ActiveEf(block_lines, qs[k] - 1)

\* C16 witness: the call on the second block of a file has returned one
\* point; its tag was set before the M/ef line, and a later quantization
\* line changed the tag in force but not M.
C16_Witness ==
    /\ block_no = 2
    /\ xpc = "returned"
    /\ Len(block_lines) = 4
    /\ IsQuantizationLine(block_lines[1])
    /\ IsMEfLine(block_lines[2])
    /\ IsNonMemoryQueryLine(block_lines[3])
    /\ IsQuantizationLine(block_lines[4])
    /\ Len(point_list) = 1
    /\ Some(point_list[1].pq) # current_pq
    /\ Some(point_list[1].M) = M

-----------------------------------------------------------------------------
(***************************************************************************)
(* fitK.py (cost_vs_N) and fitNK.py (cost_vs_N_and_K): the selection of    *)
(* the samples and the call of the solver.  curve_fit is not code of the   *)
(* repository: once called it either returns parameters or raises.         *)
(***************************************************************************)

\* Most graphs and runs, taken together, in the dataset read from stdin.
MaxFitSize == 5

\* The K that fitK.py selects.
KFixed == 19
\* The free parameters of fit_function: A, B, X in fitK.py; A, B, X, Y in
\* fitNK.py.
FitKParams == 3
FitNKParams == 4

FitNs == {1, 2}
FitRuns ==
    {[K |-> 19, B |-> 1, F |-> 3], [K |-> 19, B |-> 2, F |-> 5],
     [K |-> 1, B |-> 1, F |-> 7], [K |-> 1, B |-> 2, F |-> 9]}

\* The JSON text of a dataset, item by item: the start of a graph with its N,
\* or one more run of the graph that is open.
GraphItem(n) == [graph |-> TRUE, N |-> n, run |-> [K |-> 0, B |-> 0, F |-> 0]]
RunItem(r) == [graph |-> FALSE, N |-> 0, run |-> r]
FitItems == {GraphItem(n) : n \in FitNs} \cup {RunItem(r) : r \in FitRuns}

RECURSIVE load_items(_, _, _)
\* json.load on such a text (line 6): the list of graphs it denotes.
load_items(items, i, graphs) ==
    IF i > Len(items) THEN graphs
    ELSE IF items[i].graph
         THEN load_items(items, i + 1,
                         Append(graphs, [N |-> items[i].N, data |-> <<>>]))
    ELSE load_items(items, i + 1,
                    [graphs EXCEPT ![Len(graphs)].data = Append(@, items[i].run)])

\* The datasets the scripts are tried on.
FitDatasets ==
    {load_items(items, 1, <<>>) :
        items \in {t \in UNION {[1..n -> FitItems] : n \in 0..MaxFitSize} :
                      t # <<>> => t[1].graph}}

\* The condition holds for every run, whatever its B.
selected_any_budget(scr, graph, run) ==
    IF scr = "fitK" THEN run.K = KFixed ELSE TRUE

\* Line 31 of fitK.py and of fitNK.py: the condition of the if statement.
selected(scr, graph, run) ==
    IF scr = "fitK" THEN run.B = graph.N /\ run.K = KFixed
    ELSE run.B = graph.N

\* Line 32 of fitK.py and of fitNK.py: the tuple appended.
sample(scr, graph, run) ==
    IF scr = "fitK" THEN <<graph.N, run.F>> ELSE <<graph.N, run.K, run.F>>

NumParams(scr) == IF scr = "fitK" THEN FitKParams ELSE FitNKParams

\* Lines 6-28: the dataset is loaded and filtered_data is the empty list.
InitFit ==
    /\ script \in {"fitK", "fitNK"}
    /\ dataset \in FitDatasets
    /\ graph_i = 1
    /\ run_i = 1
    /\ filtered_data = <<>>
    /\ solver_called = FALSE
    /\ fit_error = None
    /\ fit_pc = "select"
    /\ ParseIdle
    /\ ParetoIdle
    /\ ExtractIdle
    /\ CombineIdle

InSelect ==
    /\ fit_pc = "select"
    /\ graph_i <= Len(dataset)

\* Lines 30-32: a run that the condition selects.
SelectRun ==
    /\ InSelect
    /\ run_i <= Len(dataset[graph_i].data)
    /\ selected(script, dataset[graph_i], dataset[graph_i].data[run_i])
    /\ filtered_data' = Append(filtered_data,
                               sample(script, dataset[graph_i],
                                      dataset[graph_i].data[run_i]))
    /\ run_i' = run_i + 1
    /\ UNCHANGED <<script, dataset, graph_i, solver_called, fit_error, fit_pc>>
    /\ UNCHANGED <<parseVars, paretoVars, extractVars, combineVars>>

\* Lines 30-31: a run that the condition rejects.
SkipRun ==
    /\ InSelect
    /\ run_i <= Len(dataset[graph_i].data)
    /\ ~selected(script, dataset[graph_i], dataset[graph_i].data[run_i])
    /\ run_i' = run_i + 1
    /\ UNCHANGED <<script, dataset, graph_i, filtered_data, solver_called,
                   fit_error, fit_pc>>
    /\ UNCHANGED <<parseVars, paretoVars, extractVars, combineVars>>

\* Lines 29-30: the runs of a graph are exhausted.
NextGraph ==
    /\ InSelect
    /\ run_i > Len(dataset[graph_i].data)
    /\ graph_i' = graph_i + 1
    /\ run_i' = 1
    /\ UNCHANGED <<script, dataset, filtered_data, solver_called, fit_error,
                   fit_pc>>
    /\ UNCHANGED <<parseVars, paretoVars, extractVars, combineVars>>

\* Lines 29-34: the graphs are exhausted; the samples are printed.
EndSelect ==
    /\ fit_pc = "select"
    /\ graph_i > Len(dataset)
    /\ fit_pc' = "unpack"
    /\ UNCHANGED <<script, dataset, graph_i, run_i, filtered_data,
                   solver_called, fit_error>>
    /\ UNCHANGED <<parseVars, paretoVars, extractVars, combineVars>>

\* Line 37 on an empty list: zip() yields nothing and the unpacking raises.
UnpackNothing ==
    /\ fit_pc = "unpack"
    /\ filtered_data = <<>>
    /\ fit_error' = Some("ValueError")
    /\ fit_pc' = "failed"
    /\ UNCHANGED <<script, dataset, graph_i, run_i, filtered_data, solver_called>>
    /\ UNCHANGED <<parseVars, paretoVars, extractVars, combineVars>>

\* Lines 37-46 on at least one sample: the columns and the model function.
UnpackSamples ==
    /\ fit_pc = "unpack"
    /\ filtered_data # <<>>
    /\ fit_pc' = "fit"
    /\ UNCHANGED <<script, dataset, graph_i, run_i, filtered_data,
                   solver_called, fit_error>>
    /\ UNCHANGED <<parseVars, paretoVars, extractVars, combineVars>>

\* Line 47 of fitK.py, line 50 of fitNK.py: curve_fit is called and returns;
\* the parameters are printed.
SolverReturns ==
    /\ fit_pc = "fit"
    /\ solver_called' = TRUE
    /\ fit_pc' = "done"
    /\ UNCHANGED <<script, dataset, graph_i, run_i, filtered_data, fit_error>>
    /\ UNCHANGED <<parseVars, paretoVars, extractVars, combineVars>>

\* The same call, when curve_fit does not converge and raises RuntimeError.
SolverFails ==
    /\ fit_pc = "fit"
    /\ solver_called' = TRUE
    /\ fit_error' = Some("RuntimeError")
    /\ fit_pc' = "failed"
    /\ UNCHANGED <<script, dataset, graph_i, run_i, filtered_data>>
    /\ UNCHANGED <<parseVars, paretoVars, extractVars, combineVars>>

NextFit ==
    \/ SelectRun
    \/ SkipRun
    \/ NextGraph
    \/ EndSelect
    \/ UnpackNothing
    \/ UnpackSamples
    \/ SolverReturns
    \/ SolverFails

SpecFit == InitFit /\ [][NextFit]_vars

\* C12: with no sample, or fewer samples than the model has parameters, the
\* run ends in an insufficient-data error that is not the solver's failure,
\* and the solver is not called.
C12_TooFewSamplesNoFit ==
    (fit_pc # "select" /\ Len(filtered_data) < NumParams(script)) =>
        /\ ~solver_called
        /\ fit_pc # "done"
        /\ fit_pc = "failed" => fit_error # Some("RuntimeError")

\* The (graph, run) positions of a dataset before the loop position (g, r),
\* in build-then-trial order.
PositionsBefore(g, r) ==
    {pos \in (1..Len(dataset)) \X (1..MaxFitSize) :
        /\ pos[2] <= Len(dataset[pos[1]].data)
        /\ \/ pos[1] < g
           \/ pos[1] = g /\ pos[2] < r}

PosLess(a, b) == a[1] < b[1] \/ (a[1] = b[1] /\ a[2] < b[2])

RECURSIVE SortedPositions(_)
SortedPositions(S) ==
    IF S = {} THEN <<>>
    ELSE LET m == CHOOSE a \in S : \A b \in S \ {a} : PosLess(a, b)
         IN  <<m>> \o SortedPositions(S \ {m})

\* The trials whose budget is the N of the build they are recorded under.
BudgetIsOwnN(pos) == dataset[pos[1]].data[pos[2]].B = dataset[pos[1]].N

\* What the two-variable fit is expected to hold of the positions S.
ExpectedNK(S) ==
    LET ps == SortedPositions({pos \in S : BudgetIsOwnN(pos)})
    IN  [i \in 1..Len(ps) |->
            <<dataset[ps[i][1]].N, dataset[ps[i][1]].data[ps[i][2]].K,
              dataset[ps[i][1]].data[ps[i][2]].F>>]

\* The same selection restricted to the fixed K, as (N, F) pairs.
ExpectedK(S) ==
    LET nk == ExpectedNK(S)
        fixed == SelectSeq(nk, LAMBDA t : t[2] = KFixed)
    IN  [i \in 1..Len(fixed) |-> <<fixed[i][1], fixed[i][3]>>]

-----------------------------------------------------------------------------
(***************************************************************************)
(* combine.py: combine_json_files.                                         *)
(***************************************************************************)

\* Most filenames in the list given to combine_json_files.
MaxFiles == 3

\* A path: its directory part, and the root and the extension of its last
\* component.
Path(dirname, root, ext) == [dirname |-> dirname, root |-> root, ext |-> ext]

\* a/x.json, b/x.json and y.json.
Paths == {Path("a", "x", ".json"), Path("b", "x", ".json"), Path("", "y", ".json")}

\* os.path.basename: the last component of a path.
basename(path) == [root |-> path.root, ext |-> path.ext]

\* os.path.splitext: the root and the extension of a name.
splitext(name) == <<name.root, name.ext>>

\* Line 18: the key of a filename.
key_of(filename) == splitext(basename(filename))[1]

\* What opening a file and json.load give (lines 20-21): None when either
\* raises, otherwise the parsed value.
FileSystems == [Paths -> {None, Some(1), Some(2)}]

\* Line 15, on entry: the filesystem is whatever it is.
InitCombine ==
    /\ file_system \in FileSystems
    /\ filenames = <<>>
    /\ combined_data = EmptyDict
    /\ printed = <<>>
    /\ results_json = None
    /\ cpc = "loop"
    /\ ParseIdle
    /\ ParetoIdle
    /\ ExtractIdle
    /\ FitIdle

\* Lines 17-21: a file that opens and parses; its value is stored under the
\* key of its name.
ReadFile(filename) ==
    /\ cpc = "loop"
    /\ Len(filenames) < MaxFiles
    /\ file_system[filename] # None
    /\ filenames' = Append(filenames, filename)
    /\ combined_data' = DictSet(combined_data, key_of(filename),
                                file_system[filename][1])
    /\ UNCHANGED <<file_system, printed, results_json, cpc>>
    /\ UNCHANGED <<parseVars, paretoVars, extractVars, fitVars>>

\* Lines 17-24: open or json.load raises; the message is printed and the loop
\* continues.
SkipFile(filename) ==
    /\ cpc = "loop"
    /\ Len(filenames) < MaxFiles
    /\ file_system[filename] = None
    /\ filenames' = Append(filenames, filename)
    /\ printed' = Append(printed, <<"Error reading", filename>>)
    /\ UNCHANGED <<file_system, combined_data, results_json, cpc>>
    /\ UNCHANGED <<parseVars, paretoVars, extractVars, fitVars>>

\* Lines 26-27: the list is exhausted; results.json is written.
WriteResults ==
    /\ cpc = "loop"
    /\ results_json' = Some(combined_data)
    /\ cpc' = "written"
    /\ UNCHANGED <<file_system, filenames, combined_data, printed>>
    /\ UNCHANGED <<parseVars, paretoVars, extractVars, fitVars>>

NextCombine ==
    \/ \E filename \in Paths : ReadFile(filename)
    \/ \E filename \in Paths : SkipFile(filename)
    \/ WriteResults

SpecCombine == InitCombine /\ [][NextCombine]_vars

\* The files of the list that were read, and those that were not.
ReadOk == {filenames[i] : i \in {j \in 1..Len(filenames) : file_system[filenames[j]] # None}}
ReadFailed == SelectSeq(filenames, LAMBDA f : file_system[f] = None)

\* C13: each failing file is skipped with a printed warning and the others
\* are still processed; the output written has one entry, keyed by the
\* file's stem, for every file read successfully, and none for a failed one.
C13_OneEntryPerFileRead ==
    cpc = "written" =>
        /\ printed = [i \in 1..Len(ReadFailed) |-> <<"Error reading", ReadFailed[i]>>]
        /\ DOMAIN results_json[1] = {key_of(f) : f \in ReadOk}
        /\ \A f \in ReadOk : results_json[1][key_of(f)] = file_system[f][1]
        /\ Cardinality(DOMAIN results_json[1]) = Cardinality(ReadOk)

=============================================================================
